---- MODULE Spec2Model ----
(***************************************************************************)
(* Model of the RV-park news digest (src/digest.py, src/sources.py).       *)
(*                                                                         *)
(* Text is modelled character by character: a string is a sequence of      *)
(* one-character strings, so that Python's substring test `k in text`,     *)
(* str.lower(), str.upper() and re.sub(r"\s+", " ", text).strip() are      *)
(* computed as the code computes them.                                     *)
(*                                                                         *)
(* Time is counted in hours.  A datetime is a record                       *)
(*   [wall |-> wall-clock reading, aware |-> has tzinfo, off |-> utcoffset] *)
(* and the instant it denotes is wall - off.                               *)
(***************************************************************************)
EXTENDS Integers, Sequences, FiniteSets, TLC

(***************************************************************************)
(* Phrase tables of src/digest.py                                          *)
(***************************************************************************)
MUST_HAVE_ANY ==
    << <<"r","v"," ","p","a","r","k">>,
       <<"r","v"," ","p","a","r","k","s">>,
       <<"r","v"," ","r","e","s","o","r","t">>,
       <<"r","v"," ","r","e","s","o","r","t","s">>,
       <<"r","v"," ","c","a","m","p","g","r","o","u","n","d">>,
       <<"r","v"," ","c","a","m","p","g","r","o","u","n","d","s">>,
       <<"c","a","m","p","g","r","o","u","n","d">>,
       <<"c","a","m","p","g","r","o","u","n","d","s">>,
       <<"r","e","c","r","e","a","t","i","o","n"," ","v","e","h","i","c","l","e"," ","p","a","r","k">>,
       <<"k","o","a">> >>

REJECT_IF_ANY ==
    << <<"t","r","a","v","e","l"," ","t","r","a","i","l","e","r">>,
       <<"f","i","f","t","h"," ","w","h","e","e","l">>,
       <<"m","o","t","o","r","h","o","m","e">>,
       <<"p","i","c","k","u","p"," ","t","r","u","c","k">>,
       <<"t","o","w"," ","v","e","h","i","c","l","e">>,
       <<"a","i","r","s","t","r","e","a","m">>,
       <<"c","a","m","p","e","r","v","a","n">>,
       <<"v","a","n"," ","l","i","f","e">>,
       <<"v","a","n","l","i","f","e">>,
       <<"r","v"," ","r","e","v","i","e","w">>,
       <<"r","v"," ","s","h","o","w">>,
       <<"r","v"," ","e","x","p","o">>,
       <<"d","e","a","l","e","r","s","h","i","p">>,
       <<"d","e","a","l","e","r">>,
       <<"m","s","r","p">>,
       <<"n","e","w"," ","m","o","d","e","l">>,
       <<"r","e","c","a","l","l">>,
       <<"b","e","s","t"," ","r","v">>,
       <<"t","o","p"," ","r","v">>,
       <<"r","v"," ","t","i","p","s">>,
       <<"r","v"," ","m","a","i","n","t","e","n","a","n","c","e">> >>

NON_US_HINTS ==
    << <<"a","u","s","t","r","a","l","i","a">>,
       <<"w","e","s","t","e","r","n"," ","a","u","s","t","r","a","l","i","a">>,
       <<"q","u","e","e","n","s","l","a","n","d">>,
       <<"n","e","w"," ","s","o","u","t","h"," ","w","a","l","e","s">>,
       <<"v","i","c","t","o","r","i","a"," ","(","a","u","s",")">>,
       <<"c","a","n","a","d","a">>,
       <<"o","n","t","a","r","i","o">>,
       <<"b","r","i","t","i","s","h"," ","c","o","l","u","m","b","i","a">>,
       <<"a","l","b","e","r","t","a">>,
       <<"u","n","i","t","e","d"," ","k","i","n","g","d","o","m">>,
       <<"u","k">>,
       <<"e","n","g","l","a","n","d">>,
       <<"s","c","o","t","l","a","n","d">>,
       <<"w","a","l","e","s">>,
       <<"i","r","e","l","a","n","d">>,
       <<"n","e","w"," ","z","e","a","l","a","n","d">>,
       <<"e","u","r","o","p","e">>,
       <<"g","e","r","m","a","n","y">>,
       <<"f","r","a","n","c","e">>,
       <<"s","p","a","i","n">>,
       <<"i","t","a","l","y">>,
       <<"s","o","u","t","h"," ","a","f","r","i","c","a">>,
       <<"i","n","d","i","a">> >>

US_OPERATOR_OK ==
    << <<"k","o","a">>,
       <<"s","u","n"," ","c","o","m","m","u","n","i","t","i","e","s">>,
       <<"s","u","n"," ","o","u","t","d","o","o","r","s">>,
       <<"s","u","i">>,
       <<"e","q","u","i","t","y"," ","l","i","f","e","s","t","y","l","e">>,
       <<"e","q","u","i","t","y"," ","l","i","f","e","s","t","y","l","e"," ","p","r","o","p","e","r","t","i","e","s">>,
       <<"e","l","s">>,
       <<"r","h","p"," ","p","r","o","p","e","r","t","i","e","s">> >>

US_HINTS ==
    << <<"u","n","i","t","e","d"," ","s","t","a","t","e","s">>,
       <<"u",".","s",".">>,
       <<"u","s","a">>,
       <<"a","m","e","r","i","c","a","n">>,
       <<"c","o","u","n","t","y">>,
       <<"c","i","t","y"," ","o","f">>,
       <<"s","t","a","t","e"," ","o","f">>,
       <<"a","l","a","b","a","m","a">>,
       <<"a","l","a","s","k","a">>,
       <<"a","r","i","z","o","n","a">>,
       <<"a","r","k","a","n","s","a","s">>,
       <<"c","a","l","i","f","o","r","n","i","a">>,
       <<"c","o","l","o","r","a","d","o">>,
       <<"c","o","n","n","e","c","t","i","c","u","t">>,
       <<"d","e","l","a","w","a","r","e">>,
       <<"f","l","o","r","i","d","a">>,
       <<"g","e","o","r","g","i","a">>,
       <<"h","a","w","a","i","i">>,
       <<"i","d","a","h","o">>,
       <<"i","l","l","i","n","o","i","s">>,
       <<"i","n","d","i","a","n","a">>,
       <<"i","o","w","a">>,
       <<"k","a","n","s","a","s">>,
       <<"k","e","n","t","u","c","k","y">>,
       <<"l","o","u","i","s","i","a","n","a">>,
       <<"m","a","i","n","e">>,
       <<"m","a","r","y","l","a","n","d">>,
       <<"m","a","s","s","a","c","h","u","s","e","t","t","s">>,
       <<"m","i","c","h","i","g","a","n">>,
       <<"m","i","n","n","e","s","o","t","a">>,
       <<"m","i","s","s","i","s","s","i","p","p","i">>,
       <<"m","i","s","s","o","u","r","i">>,
       <<"m","o","n","t","a","n","a">>,
       <<"n","e","b","r","a","s","k","a">>,
       <<"n","e","v","a","d","a">>,
       <<"n","e","w"," ","h","a","m","p","s","h","i","r","e">>,
       <<"n","e","w"," ","j","e","r","s","e","y">>,
       <<"n","e","w"," ","m","e","x","i","c","o">>,
       <<"n","e","w"," ","y","o","r","k">>,
       <<"n","o","r","t","h"," ","c","a","r","o","l","i","n","a">>,
       <<"n","o","r","t","h"," ","d","a","k","o","t","a">>,
       <<"o","h","i","o">>,
       <<"o","k","l","a","h","o","m","a">>,
       <<"o","r","e","g","o","n">>,
       <<"p","e","n","n","s","y","l","v","a","n","i","a">>,
       <<"r","h","o","d","e"," ","i","s","l","a","n","d">>,
       <<"s","o","u","t","h"," ","c","a","r","o","l","i","n","a">>,
       <<"s","o","u","t","h"," ","d","a","k","o","t","a">>,
       <<"t","e","n","n","e","s","s","e","e">>,
       <<"t","e","x","a","s">>,
       <<"u","t","a","h">>,
       <<"v","e","r","m","o","n","t">>,
       <<"v","i","r","g","i","n","i","a">>,
       <<"w","a","s","h","i","n","g","t","o","n">>,
       <<"w","e","s","t"," ","v","i","r","g","i","n","i","a">>,
       <<"w","i","s","c","o","n","s","i","n">>,
       <<"w","y","o","m","i","n","g">> >>

STATE_ABBR ==
    << <<"A","L">>,
       <<"A","K">>,
       <<"A","Z">>,
       <<"A","R">>,
       <<"C","A">>,
       <<"C","O">>,
       <<"C","T">>,
       <<"D","E">>,
       <<"F","L">>,
       <<"G","A">>,
       <<"H","I">>,
       <<"I","D">>,
       <<"I","L">>,
       <<"I","N">>,
       <<"I","A">>,
       <<"K","S">>,
       <<"K","Y">>,
       <<"L","A">>,
       <<"M","E">>,
       <<"M","D">>,
       <<"M","A">>,
       <<"M","I">>,
       <<"M","N">>,
       <<"M","S">>,
       <<"M","O">>,
       <<"M","T">>,
       <<"N","E">>,
       <<"N","V">>,
       <<"N","H">>,
       <<"N","J">>,
       <<"N","M">>,
       <<"N","Y">>,
       <<"N","C">>,
       <<"N","D">>,
       <<"O","H">>,
       <<"O","K">>,
       <<"O","R">>,
       <<"P","A">>,
       <<"R","I">>,
       <<"S","C">>,
       <<"S","D">>,
       <<"T","N">>,
       <<"T","X">>,
       <<"U","T">>,
       <<"V","T">>,
       <<"V","A">>,
       <<"W","A">>,
       <<"W","V">>,
       <<"W","I">>,
       <<"W","Y">> >>

KEYWORDS ==
    <<
    [cat |-> "Acquisitions / For Sale",
     words |-> << <<"a","c","q","u","i","s","i","t","i","o","n">>,
                 <<"a","c","q","u","i","r","e","d">>,
                 <<"m","e","r","g","e","r">>,
                 <<"p","o","r","t","f","o","l","i","o">>,
                 <<"f","o","r"," ","s","a","l","e">>,
                 <<"l","i","s","t","e","d">>,
                 <<"b","r","o","k","e","r">>,
                 <<"t","r","a","n","s","a","c","t","i","o","n">>,
                 <<"d","e","a","l">>,
                 <<"s","a","l","e","-","l","e","a","s","e","b","a","c","k">> >>],
    [cat |-> "Insurance / Risk",
     words |-> << <<"i","n","s","u","r","a","n","c","e">>,
                 <<"i","n","s","u","r","e","r">>,
                 <<"p","r","e","m","i","u","m">>,
                 <<"u","n","d","e","r","w","r","i","t","i","n","g">>,
                 <<"l","i","a","b","i","l","i","t","y">>,
                 <<"r","i","s","k">>,
                 <<"c","l","a","i","m">>,
                 <<"w","i","l","d","f","i","r","e">>,
                 <<"f","l","o","o","d">>,
                 <<"h","u","r","r","i","c","a","n","e">> >>],
    [cat |-> "Legal / Zoning",
     words |-> << <<"z","o","n","i","n","g">>,
                 <<"o","r","d","i","n","a","n","c","e">>,
                 <<"l","a","w","s","u","i","t">>,
                 <<"l","i","t","i","g","a","t","i","o","n">>,
                 <<"p","e","r","m","i","t">>,
                 <<"p","l","a","n","n","i","n","g"," ","c","o","m","m","i","s","s","i","o","n">>,
                 <<"c","o","d","e"," ","e","n","f","o","r","c","e","m","e","n","t">>,
                 <<"i","n","j","u","n","c","t","i","o","n">> >>],
    [cat |-> "Financing / Markets",
     words |-> << <<"f","i","n","a","n","c","i","n","g">>,
                 <<"r","e","f","i","n","a","n","c","i","n","g">>,
                 <<"l","o","a","n">>,
                 <<"l","e","n","d","e","r">>,
                 <<"d","e","b","t">>,
                 <<"c","a","p"," ","r","a","t","e">>,
                 <<"i","n","t","e","r","e","s","t"," ","r","a","t","e">>,
                 <<"b","o","n","d">> >>],
    [cat |-> "Earnings / Public Companies",
     words |-> << <<"e","a","r","n","i","n","g","s">>,
                 <<"g","u","i","d","a","n","c","e">>,
                 <<"c","o","n","f","e","r","e","n","c","e"," ","c","a","l","l">>,
                 <<"r","e","s","u","l","t","s">>,
                 <<"1","0","-","q">>,
                 <<"1","0","-","k">>,
                 <<"8","-","k">>,
                 <<"s","e","c"," ","f","i","l","i","n","g">> >>],
    [cat |-> "Operations / Industry",
     words |-> << <<"o","c","c","u","p","a","n","c","y">>,
                 <<"r","a","t","e","s">>,
                 <<"r","e","v","e","n","u","e">>,
                 <<"r","e","v","p","a","r">>,
                 <<"r","e","s","e","r","v","a","t","i","o","n","s">>,
                 <<"d","e","m","a","n","d">>,
                 <<"d","e","v","e","l","o","p","m","e","n","t">>,
                 <<"e","x","p","a","n","s","i","o","n">> >>],
    [cat |-> "People / Notable",
     words |-> << <<"c","e","o">>,
                 <<"f","o","u","n","d","e","r">>,
                 <<"a","p","p","o","i","n","t","e","d">>,
                 <<"r","e","s","i","g","n","s">>,
                 <<"r","e","t","i","r","e","d">>,
                 <<"d","e","a","t","h">>,
                 <<"d","i","e","s">>,
                 <<"p","a","s","s","e","d"," ","a","w","a","y">>,
                 <<"o","b","i","t","u","a","r","y">> >>]
    >>

(***************************************************************************)
(* String primitives                                                       *)
(***************************************************************************)
LowerOf ==
    ("A" :> "a") @@ ("B" :> "b") @@ ("C" :> "c") @@ ("D" :> "d") @@ ("E" :> "e") @@ ("F" :> "f")
    @@ ("G" :> "g") @@ ("H" :> "h") @@ ("I" :> "i") @@ ("J" :> "j") @@ ("K" :> "k") @@ ("L" :> "l")
    @@ ("M" :> "m") @@ ("N" :> "n") @@ ("O" :> "o") @@ ("P" :> "p") @@ ("Q" :> "q") @@ ("R" :> "r")
    @@ ("S" :> "s") @@ ("T" :> "t") @@ ("U" :> "u") @@ ("V" :> "v") @@ ("W" :> "w") @@ ("X" :> "x")
    @@ ("Y" :> "y") @@ ("Z" :> "z")

UpperOf ==
    ("a" :> "A") @@ ("b" :> "B") @@ ("c" :> "C") @@ ("d" :> "D") @@ ("e" :> "E") @@ ("f" :> "F")
    @@ ("g" :> "G") @@ ("h" :> "H") @@ ("i" :> "I") @@ ("j" :> "J") @@ ("k" :> "K") @@ ("l" :> "L")
    @@ ("m" :> "M") @@ ("n" :> "N") @@ ("o" :> "O") @@ ("p" :> "P") @@ ("q" :> "Q") @@ ("r" :> "R")
    @@ ("s" :> "S") @@ ("t" :> "T") @@ ("u" :> "U") @@ ("v" :> "V") @@ ("w" :> "W") @@ ("x" :> "X")
    @@ ("y" :> "Y") @@ ("z" :> "Z")

LowerChar(c) == IF c \in DOMAIN LowerOf THEN LowerOf[c] ELSE c

UpperChar(c) == IF c \in DOMAIN UpperOf THEN UpperOf[c] ELSE c

\* str.lower()
RECURSIVE Lower(_)
Lower(s) ==
    IF s = << >> THEN << >>
    ELSE IF Len(s) = 1 THEN << LowerChar(s[1]) >>
    ELSE Lower(SubSeq(s, 1, Len(s) \div 2)) \o Lower(SubSeq(s, Len(s) \div 2 + 1, Len(s)))

\* str.upper()
RECURSIVE Upper(_)
Upper(s) ==
    IF s = << >> THEN << >>
    ELSE IF Len(s) = 1 THEN << UpperChar(s[1]) >>
    ELSE Upper(SubSeq(s, 1, Len(s) \div 2)) \o Upper(SubSeq(s, Len(s) \div 2 + 1, Len(s)))

\* the characters the regex class \s matches
IsSpace(c) == c \in {" ", "\t", "\n"}

\* re.sub(r"\s+", " ", s): every maximal run of whitespace becomes one blank
RECURSIVE SubWs(_)
SubWs(s) ==
    IF s = << >> THEN << >>
    ELSE IF IsSpace(Head(s))
         THEN IF Len(s) > 1 /\ IsSpace(s[2])
              THEN SubWs(Tail(s))
              ELSE << " " >> \o SubWs(Tail(s))
         ELSE << Head(s) >> \o SubWs(Tail(s))

\* str.strip()
RECURSIVE LStrip(_)
LStrip(s) == IF s # << >> /\ IsSpace(Head(s)) THEN LStrip(Tail(s)) ELSE s

RECURSIVE RStrip(_)
RStrip(s) ==
    IF s # << >> /\ IsSpace(s[Len(s)]) THEN RStrip(SubSeq(s, 1, Len(s) - 1)) ELSE s

Strip(s) == LStrip(RStrip(s))

\* Python's `needle in hay` on strings
Contains(hay, needle) ==
    \E h \in { hay } : \E n \in { needle } :
        \/ n = << >>
        \/ \E i \in 1..(Len(h) - Len(n) + 1) :
               /\ h[i] = n[1]
               /\ \A j \in 2..Len(n) : h[i + j - 1] = n[j]

\* any(k in text for k in phrases)
AnyIn(phrases, text) ==
    \E t \in { text } : \E j \in DOMAIN phrases : Contains(t, phrases[j])

(***************************************************************************)
(* STRICT RV-PARK + US FILTER                                              *)
(***************************************************************************)
has_state_abbr(text) ==
    \E t \in { << " " >> \o Upper(text) \o << " " >> } :
        \E j \in DOMAIN STATE_ABBR :
            LET ab == STATE_ABBR[j]
            IN  \/ Contains(t, << " " >> \o ab \o << " " >>)
                \/ Contains(t, << ",", " " >> \o ab \o << " " >>)
                \/ Contains(t, << "(" >> \o ab \o << ")" >>)

\* text = re.sub(r"\s+", " ", f"{title} {summary}".lower()).strip()
ScopeText(item) == Strip(SubWs(Lower(item.title \o << " " >> \o item.summary)))

\* is_strict_us_rvpark without the test of REJECT_IF_ANY
is_strict_no_reject(item) ==
    LET text == ScopeText(item)
    IN  IF AnyIn(NON_US_HINTS, text) THEN FALSE
        ELSE IF ~AnyIn(MUST_HAVE_ANY, text) THEN FALSE
        ELSE IF /\ ~AnyIn(US_OPERATOR_OK, text)
                /\ ~AnyIn(US_HINTS, text)
                /\ ~has_state_abbr(text) THEN FALSE
        ELSE TRUE

\* is_strict_us_rvpark asking every story, operator stories too, for a US hint
is_strict_no_operator(item) ==
    LET text == ScopeText(item)
    IN  IF AnyIn(NON_US_HINTS, text) THEN FALSE
        ELSE IF ~AnyIn(MUST_HAVE_ANY, text) THEN FALSE
        ELSE IF AnyIn(REJECT_IF_ANY, text) THEN FALSE
        ELSE IF /\ ~AnyIn(US_HINTS, text)
                /\ ~has_state_abbr(text) THEN FALSE
        ELSE TRUE

is_strict_us_rvpark(item) ==
    LET text == ScopeText(item)
    IN  IF AnyIn(NON_US_HINTS, text) THEN FALSE
        ELSE IF ~AnyIn(MUST_HAVE_ANY, text) THEN FALSE
        ELSE IF AnyIn(REJECT_IF_ANY, text) THEN FALSE
        ELSE IF /\ ~AnyIn(US_OPERATOR_OK, text)
                /\ ~AnyIn(US_HINTS, text)
                /\ ~has_state_abbr(text) THEN FALSE
        ELSE TRUE

(***************************************************************************)
(* CATEGORY TAGGING                                                        *)
(***************************************************************************)
\* hay = (title + " " + summary).lower()
CategoryText(item) == Lower(item.title \o << " " >> \o item.summary)

\* the loop of categorize over the first n rows of KEYWORDS
RECURSIVE CategorizeRows(_, _)
CategorizeRows(hay, n) ==
    IF n = 0 THEN << >>
    ELSE CategorizeRows(hay, n - 1)
         \o (IF AnyIn(KEYWORDS[n].words, hay) THEN << KEYWORDS[n].cat >> ELSE << >>)

\* categorize stopping at the first category that hits
categorize_first_hit(item) ==
    LET tags == CategorizeRows(CategoryText(item), Len(KEYWORDS))
    IN  IF tags # << >> THEN << tags[1] >> ELSE << "Other" >>

categorize(item) ==
    LET tags == CategorizeRows(CategoryText(item), Len(KEYWORDS))
    IN  IF tags # << >> THEN tags ELSE << "Other" >>
(***************************************************************************)
(* Source tables of src/sources.py (the url of a row is not modelled)       *)
(***************************************************************************)
SOURCES ==
    << [name |-> "RVBusiness - Today's News",
        type |-> "html_rvbusiness"],
       [name |-> "RVBusiness - Today's Industry News",
        type |-> "html_rvbusiness"],
       [name |-> "Woodall's Campground Magazine",
        type |-> "rss"],
       [name |-> "Modern Campground",
        type |-> "rss"],
       [name |-> "KOA Press Releases",
        type |-> "html_simple_dates"],
       [name |-> "Sun Communities News Releases",
        type |-> "html_simple_dates"],
       [name |-> "ELS IR News",
        type |-> "html_simple_dates"] >>

GOOGLE_NEWS_QUERIES ==
    << [name |-> "US RV Parks - Acquisitions / For Sale"],
       [name |-> "US RV Parks - Insurance / Risk"],
       [name |-> "US RV Parks - Legal / Lawsuits / Zoning"],
       [name |-> "US RV Parks - Financing / Rates / Debt"],
       [name |-> "Sun / ELS - Outdoor Hospitality Mentions"],
       [name |-> "Campendium / The Dyrt - RV Park Related"] >>


(***************************************************************************)
(* Temporal Normalizer                                                     *)
(***************************************************************************)
\* timedelta(days=1), in hours
HoursPerDay == 24

\* utcoffset of ET = pytz.timezone("America/New_York"), standard time
ET_OFFSET == -5

\* utcoffset of timezone.utc
UTC_OFFSET == 0

\* main: collect_all(days=7)
WindowDays == 7

\* the instant (UTC hours) an aware datetime denotes
Instant(dt) == dt.wall - dt.off

\* dt.replace(tzinfo=timezone.utc): the wall-clock reading is kept
replace_tzinfo_utc(dt) == [wall |-> dt.wall, aware |-> TRUE, off |-> UTC_OFFSET]

\* ET.localize(dt): the wall-clock reading is kept
ET_localize(dt) == [wall |-> dt.wall, aware |-> TRUE, off |-> ET_OFFSET]

\* dt.astimezone(ET) of an aware dt: the instant is kept
astimezone_ET(dt) ==
    [wall |-> Instant(dt) + ET_OFFSET, aware |-> TRUE, off |-> ET_OFFSET]

\* datetime.now(tz=ET) when the clock reads `clock` (UTC hours)
now_ET(clock) == [wall |-> clock + ET_OFFSET, aware |-> TRUE, off |-> ET_OFFSET]

\* dt - timedelta(days=days): wall-clock arithmetic, tzinfo kept
minus_days(dt, days) == [dt EXCEPT !.wall = @ - days * HoursPerDay]

\* within_days with a strict comparison
within_days_strict(dt, days, clock) ==
    LET nw == now_ET(clock)
        d  == IF ~dt.aware THEN ET_localize(dt) ELSE dt
    IN  Instant(d) > Instant(minus_days(nw, days))

within_days(dt, days, clock) ==
    LET nw == now_ET(clock)
        d  == IF ~dt.aware THEN ET_localize(dt) ELSE dt
    IN  Instant(d) >= Instant(minus_days(nw, days))

\* a naive published read as ET local time
attach_et(dt) == IF ~dt.aware THEN ET_localize(dt) ELSE dt

\* collect_all, lines 282-285: a naive published gets tzinfo=UTC
attach_utc(dt) == IF ~dt.aware THEN replace_tzinfo_utc(dt) ELSE dt

\* collect_all, line 287: the window test of one item
in_window(dt, days, clock) == within_days(astimezone_ET(dt), days, clock)

(***************************************************************************)
(* Fetchers, seen from collect_all: what a call can return                 *)
(***************************************************************************)
BoundedSeq(S, n) == UNION { [1..k -> S] : k \in 0..n }

\* parse_html_simple_dates, lines 250-253: uniq[it.url] = it; list(uniq.values())
RECURSIVE UniqByUrl(_)
UniqByUrl(its) ==
    IF its = << >> THEN << >>
    ELSE LET acc == UniqByUrl(SubSeq(its, 1, Len(its) - 1))
             it  == its[Len(its)]
         IN  IF \E i \in DOMAIN acc : acc[i].url = it.url
             THEN [i \in DOMAIN acc |-> IF acc[i].url = it.url THEN it ELSE acc[i]]
             ELSE Append(acc, it)

\* parse_rss: up to n entries of the feed, in feed order
parse_rss(served, n) == BoundedSeq(served, n)

\* parse_html_simple_dates: anchors with a date, no summary, one per url
parse_html_simple_dates(served, n) ==
    { UniqByUrl([i \in DOMAIN s |-> [s[i] EXCEPT !.summary = << >>]]) :
        s \in BoundedSeq(served, n) }

\* keep_item without the test of seen
keep_item_no_dedup(flt, sn, it, keep) ==
    IF keep
    THEN [filtered |-> Append(flt, it), seen |-> sn \cup {it.url}]
    ELSE [filtered |-> flt, seen |-> sn]

\* collect_all, lines 287-292: what one item does to filtered and seen, given
\* the verdict of the window test
keep_item(flt, sn, it, keep) ==
    IF keep /\ it.url \notin sn
    THEN [filtered |-> Append(flt, it), seen |-> sn \cup {it.url}]
    ELSE [filtered |-> flt, seen |-> sn]

\* collect_all, lines 261-267: the fetcher a source type is handed to
Dispatch(type) ==
    IF type = "rss" THEN "parse_rss"
    ELSE IF type = "html_simple_dates" THEN "parse_html_simple_dates"
    ELSE "parse_rss"

\* a fetcher call either raises (fetch_url: network error, bad status) or
\* returns a list
FetchResults(fetcher, served, n) ==
    { [raised |-> TRUE, items |-> << >>] }
    \cup { [raised |-> FALSE, items |-> r] :
             r \in IF fetcher = "parse_html_simple_dates"
                   THEN parse_html_simple_dates(served, n)
                   ELSE parse_rss(served, n) }

\* the loop body without the try: the exception leaves collect_all
TryExtend_uncaught(acc, r) ==
    IF r.raised
    THEN [out |-> acc, warn |-> FALSE, continues |-> FALSE]
    ELSE [out |-> acc \o r.items, warn |-> FALSE, continues |-> TRUE]

\* collect_all, lines 260-269 and 272-276: try: out.extend(...) except Exception:
\* print("[WARN] ...").  `continues` tells whether the loop goes on.
TryExtend(acc, r) ==
    IF r.raised
    THEN [out |-> acc, warn |-> TRUE, continues |-> TRUE]
    ELSE [out |-> acc \o r.items, warn |-> FALSE, continues |-> TRUE]

(***************************************************************************)
(* Headlines the sources serve                                             *)
(***************************************************************************)
\* "KOA campground for sale"
T_SALE ==
    <<"K","O","A"," ","c","a","m","p","g","r","o","u","n","d"," ","f","o","r"," ","s","a","l","e">>

\* "RV park zoning fight in Ocala, FL"
T_ZONING ==
    <<"R","V"," ","p","a","r","k"," ","z","o","n","i","n","g"," ","f","i","g","h","t"," ","i","n"," ","O","c","a","l","a",","," ","F","L">>

\* "Best travel trailers for 2025"
T_TRAILER ==
    <<"B","e","s","t"," ","t","r","a","v","e","l"," ","t","r","a","i","l","e","r","s"," ","f","o","r"," ","2","0","2","5">>


(***************************************************************************)
(* fallback_category_summary                                               *)
(***************************************************************************)
\* lines 312-323: the theme flags, in the order they are tested
THEMES ==
    <<
    [theme |-> <<"d","e","a","l","/","l","i","s","t","i","n","g"," ","a","c","t","i","v","i","t","y">>,
     words |-> << <<"f","o","r"," ","s","a","l","e">>,
                 <<"l","i","s","t","e","d">>,
                 <<"b","r","o","k","e","r">>,
                 <<"p","o","r","t","f","o","l","i","o">>,
                 <<"a","c","q","u","i","r","e","d">>,
                 <<"a","c","q","u","i","s","i","t","i","o","n">>,
                 <<"t","r","a","n","s","a","c","t","i","o","n">>,
                 <<"d","e","a","l">> >>],
    [theme |-> <<"i","n","s","u","r","a","n","c","e","/","r","i","s","k">>,
     words |-> << <<"i","n","s","u","r","a","n","c","e">>,
                 <<"p","r","e","m","i","u","m">>,
                 <<"u","n","d","e","r","w","r","i","t","i","n","g">>,
                 <<"l","i","a","b","i","l","i","t","y">>,
                 <<"c","l","a","i","m","s">>,
                 <<"r","i","s","k">> >>],
    [theme |-> <<"l","e","g","a","l","/","z","o","n","i","n","g"," ","a","c","t","i","o","n","s">>,
     words |-> << <<"l","a","w","s","u","i","t">>,
                 <<"l","i","t","i","g","a","t","i","o","n">>,
                 <<"z","o","n","i","n","g">>,
                 <<"o","r","d","i","n","a","n","c","e">>,
                 <<"p","e","r","m","i","t">>,
                 <<"p","l","a","n","n","i","n","g"," ","c","o","m","m","i","s","s","i","o","n">>,
                 <<"c","o","d","e"," ","e","n","f","o","r","c","e","m","e","n","t">> >>],
    [theme |-> <<"f","i","n","a","n","c","i","n","g","/","m","a","r","k","e","t","s">>,
     words |-> << <<"f","i","n","a","n","c","i","n","g">>,
                 <<"l","o","a","n">>,
                 <<"l","e","n","d","e","r">>,
                 <<"r","e","f","i","n","a","n","c","e">>,
                 <<"d","e","b","t">>,
                 <<"c","a","p"," ","r","a","t","e">>,
                 <<"i","n","t","e","r","e","s","t"," ","r","a","t","e">> >>],
    [theme |-> <<"p","u","b","l","i","c","-","c","o","m","p","a","n","y","/","e","a","r","n","i","n","g","s"," ","c","o","m","m","e","n","t","a","r","y">>,
     words |-> << <<"e","a","r","n","i","n","g","s">>,
                 <<"g","u","i","d","a","n","c","e">>,
                 <<"c","o","n","f","e","r","e","n","c","e"," ","c","a","l","l">>,
                 <<"1","0","-","q">>,
                 <<"1","0","-","k">>,
                 <<"8","-","k">>,
                 <<"s","e","c">> >>],
    [theme |-> <<"o","p","e","r","a","t","o","r","/","o","p","e","r","a","t","i","o","n","s"," ","u","p","d","a","t","e","s">>,
     words |-> << <<"u","p","g","r","a","d","e">>,
                 <<"r","e","n","o","v","a","t","i","o","n">>,
                 <<"e","x","p","a","n","s","i","o","n">>,
                 <<"o","p","e","n","s">>,
                 <<"n","e","w">>,
                 <<"b","o","o","k","i","n","g">>,
                 <<"r","e","s","e","r","v","a","t","i","o","n">> >>]
    >>

NO_UPDATES ==
    <<"N","o"," ","n","o","t","a","b","l","e"," ","u","p","d","a","t","e","s"," ","s","u","r","f","a","c","e","d"," ","i","n"," ","t","h","i","s"," ","c","a","t","e","g","o","r","y"," ","t","h","i","s"," ","w","e","e","k",".">>

\* the source writes the apostrophe as U+2019
HEADLINES_SUGGEST ==
    <<"T","h","i","s"," ","w","e","e","k","'","s"," ","h","e","a","d","l","i","n","e","s"," ","s","u","g","g","e","s","t"," ">>

GENERAL_UPDATES ==
    <<"g","e","n","e","r","a","l"," ","R","V"," ","p","a","r","k"," ","/"," ","c","a","m","p","g","r","o","u","n","d"," ","u","p","d","a","t","e","s">>

KEY_LOCATIONS ==
    <<" ","K","e","y"," ","l","o","c","a","t","i","o","n","s"," ","m","e","n","t","i","o","n","e","d",":"," ">>

\* texts the summarization service may answer with
AiTexts ==
    { << >>,
      <<" ","\n">>,
      <<"<","b","r",">">>,
      <<"<","p",">","D","e","a","l","s"," ","r","o","s","e",".","<","/","p",">">>,
      <<"D","e","a","l","s"," ","r","o","s","e",".">> }

\* a stable sort of records by their field k, largest first:
\* sorted(..., key=..., reverse=True) keeps equal keys in their original order
RECURSIVE SortDesc(_)
SortDesc(s) ==
    IF s = << >> THEN << >>
    ELSE LET rest == SortDesc(SubSeq(s, 1, Len(s) - 1))
             x    == s[Len(s)]
             n    == Cardinality({ i \in DOMAIN rest : rest[i].k >= x.k })
         IN  SubSeq(rest, 1, n) \o << x >> \o SubSeq(rest, n + 1, Len(rest))

Take(s, n) == SubSeq(s, 1, IF Len(s) < n THEN Len(s) ELSE n)

\* ", ".join(parts)
RECURSIVE JoinComma(_)
JoinComma(parts) ==
    IF parts = << >> THEN << >>
    ELSE IF Len(parts) = 1 THEN parts[1]
    ELSE parts[1] \o << ",", " " >> \o JoinComma(Tail(parts))

\* " ".join((it.title + " " + it.summary) for it in items).lower()
RECURSIVE JoinItemsText(_)
JoinItemsText(its) ==
    IF its = << >> THEN << >>
    ELSE LET one == its[1].title \o << " " >> \o its[1].summary
         IN  IF Len(its) = 1 THEN one
             ELSE one \o << " " >> \o JoinItemsText(Tail(its))

\* lines 311-323
RECURSIVE ThemesIn(_, _)
ThemesIn(text, n) ==
    IF n = 0 THEN << >>
    ELSE ThemesIn(text, n - 1)
         \o (IF AnyIn(THEMES[n].words, text) THEN << THEMES[n].theme >> ELSE << >>)

\* lines 328-331, for one title: the codes found, in STATE_ABBR order
RECURSIVE StatesInTitle(_, _)
StatesInTitle(t, n) ==
    IF n = 0 THEN << >>
    ELSE StatesInTitle(t, n - 1)
         \o (IF \/ Contains(t, << ",", " " >> \o STATE_ABBR[n] \o << " " >>)
                \/ Contains(t, << "(" >> \o STATE_ABBR[n] \o << ")" >>)
             THEN << STATE_ABBR[n] >> ELSE << >>)

\* lines 326-331
RECURSIVE FoundStates(_)
FoundStates(its) ==
    IF its = << >> THEN << >>
    ELSE StatesInTitle(<< " " >> \o Upper(its[1].title) \o << " " >>, Len(STATE_ABBR))
         \o FoundStates(Tail(its))

\* the distinct elements of s, in order of first occurrence
RECURSIVE Distinct(_)
Distinct(s) ==
    IF s = << >> THEN << >>
    ELSE LET d == Distinct(SubSeq(s, 1, Len(s) - 1))
         IN  IF \E i \in DOMAIN d : d[i] = s[Len(s)] THEN d ELSE Append(d, s[Len(s)])

\* the n in Counter(found).most_common(n)
TopStates == 3

\* [s for s, _ in Counter(found).most_common(3)]
MostCommon(found) ==
    LET d      == Distinct(found)
        counts == [i \in DOMAIN d |->
                     [k |-> Cardinality({ j \in DOMAIN found : found[j] = d[i] }),
                      v |-> d[i]]]
        top    == Take(SortDesc(counts), TopStates)
    IN  [i \in DOMAIN top |-> top[i].v]

fallback_category_summary(category, its) ==
    IF its = << >> THEN NO_UPDATES
    ELSE LET text      == Lower(JoinItemsText(its))
             themes    == ThemesIn(text, Len(THEMES))
             states    == MostCommon(FoundStates(its))
             theme_txt == IF themes # << >> THEN JoinComma(themes) ELSE GENERAL_UPDATES
             state_txt == IF states # << >>
                          THEN KEY_LOCATIONS \o JoinComma(states) \o << "." >>
                          ELSE << >>
         IN  HEADLINES_SUGGEST \o theme_txt \o << "." >> \o state_txt

(***************************************************************************)
(* ai_category_summary                                                     *)
(***************************************************************************)
\* BeautifulSoup(text, "lxml").get_text(" ", strip=True) on the texts of
\* AiTexts: the tags go, the text between them is stripped
RECURSIVE DropTags(_, _)
DropTags(s, inTag) ==
    IF s = << >> THEN << >>
    ELSE IF inTag THEN DropTags(Tail(s), Head(s) # ">")
    ELSE IF Head(s) = "<" THEN DropTags(Tail(s), TRUE)
    ELSE << Head(s) >> \o DropTags(Tail(s), FALSE)

get_text(s) == Strip(DropTags(s, FALSE))

\* what the summarization service does on one call
AiEvents ==
    { [client |-> "error", api |-> "none", text |-> << >>],
      [client |-> "ok", api |-> "error", text |-> << >>],
      [client |-> "ok", api |-> "malformed", text |-> << >>] }
    \cup { [client |-> "ok", api |-> "ok", text |-> t] : t \in AiTexts }

NoAiEvent == [client |-> "none", api |-> "none", text |-> << >>]

\* lines 364-414.  The prompt (lines 373-401) is sent to the service and is
\* not modelled.  `raised`: an exception leaves the function; `requests`:
\* the number of API requests made.
ai_category_summary(hasKey, ev) ==
    IF ~hasKey
    THEN [raised |-> FALSE, text |-> << >>, requests |-> 0]
    ELSE IF ev.client = "error"
    THEN [raised |-> TRUE, text |-> << >>, requests |-> 0]
    ELSE IF ev.api # "ok"
    THEN [raised |-> FALSE, text |-> << >>, requests |-> 1]
    ELSE [raised |-> FALSE, text |-> get_text(Strip(ev.text)), requests |-> 1]

(***************************************************************************)
(* main and build_email_html                                               *)
(***************************************************************************)
\* the len(...)[:40] of the article list
ReportCap == 40

\* buckets.setdefault(c, []).append(it): a dict, kept in insertion order
AddTo(b, c, it) ==
    IF \E i \in DOMAIN b : b[i].cat = c
    THEN [i \in DOMAIN b |->
            IF b[i].cat = c THEN [b[i] EXCEPT !.items = Append(@, it)] ELSE b[i]]
    ELSE Append(b, [cat |-> c, items |-> << it >>])

RECURSIVE AddToAll(_, _, _)
AddToAll(b, cs, it) ==
    IF cs = << >> THEN b ELSE AddToAll(AddTo(b, Head(cs), it), Tail(cs), it)

\* main, lines 493-496
RECURSIVE Bucketize(_)
Bucketize(its) ==
    IF its = << >> THEN << >>
    ELSE AddToAll(Bucketize(SubSeq(its, 1, Len(its) - 1)),
                  categorize(its[Len(its)]), its[Len(its)])

\* line 436: sorted(items_by_cat.keys(), key=lambda c: len(items_by_cat[c]), reverse=True)
SortedCats(b) ==
    LET s == SortDesc([i \in DOMAIN b |-> [k |-> Len(b[i].items), v |-> b[i].cat]])
    IN  [i \in DOMAIN s |-> s[i].v]

ItemsOfCat(b, c) == b[CHOOSE i \in DOMAIN b : b[i].cat = c].items

\* the first 40 items as the dict holds them, without the sort of line 448
Listing_no_sort(its) == Take(its, ReportCap)

\* line 448: sorted(items, key=lambda x: x.published, reverse=True)[:40]
Listing(its) ==
    LET s == SortDesc([i \in DOMAIN its |-> [k |-> Instant(its[i].published), v |-> its[i]]])
    IN  Take([i \in DOMAIN s |-> s[i].v], ReportCap)

\* lines 437-454: the section of one category, given what the summary call
\* returned and what fallback_category_summary yields for the category
Section(c, its, a, fb) ==
    [cat     |-> c,
     count   |-> Len(its),
     by      |-> IF a.text # << >> THEN "ai" ELSE "fallback",
     summary |-> IF a.text # << >> THEN a.text ELSE fb,
     listing |-> Listing(its)]

\* send_email, lines 464-467: os.environ[...] of a name that is unset raises KeyError
RequiredSet(e) == e.SMTP_USERNAME /\ e.SMTP_PASSWORD /\ e.TO_EMAIL

\* send_email with the SMTP session wrapped in a handler that swallows its failure
send_email_caught(e, smtpOk) ==
    IF ~RequiredSet(e)
    THEN [raised |-> TRUE, fault |-> "config", requests |-> 0, sent |-> 0, lines |-> << >>]
    ELSE IF ~smtpOk
    THEN [raised |-> FALSE, fault |-> "smtp", requests |-> 1, sent |-> 0, lines |-> << >>]
    ELSE [raised |-> FALSE, fault |-> "none", requests |-> 1, sent |-> 1,
          lines |-> << "EMAIL_SENT_OK" >>]

\* send_email, lines 460-482, given whether the SMTP session succeeds
send_email(e, smtpOk) ==
    IF ~RequiredSet(e)
    THEN [raised |-> TRUE, fault |-> "config", requests |-> 0, sent |-> 0, lines |-> << >>]
    ELSE IF ~smtpOk
    THEN [raised |-> TRUE, fault |-> "smtp", requests |-> 1, sent |-> 0, lines |-> << >>]
    ELSE [raised |-> FALSE, fault |-> "none", requests |-> 1, sent |-> 1,
          lines |-> << "EMAIL_SENT_OK" >>]

(***************************************************************************)
(* Bounds                                                                  *)
(***************************************************************************)
\* number of text fragments an item's title and summary are built from
MaxFrags == 2

\* number of items all fetchers together return in one run
MaxOut == 2

\* the clock reading (UTC hours) when the run starts
Now0 == 1000

\* number of hours the clock advances during one run
MaxTick == 1

\* how far ahead of the run's start a far-future timestamp lies
FarAhead == 5000

\* utcoffset of a timestamp that is in neither UTC nor ET
FOREIGN_OFFSET == 10

(***************************************************************************)
(* What the sources serve                                                  *)
(***************************************************************************)
WindowHours == WindowDays * HoursPerDay

Urls == { "https://a.example/1", "https://b.example/2" }

Stamps ==
    { \* naive, reads exactly now - window when the run starts
      [wall |-> Now0 - WindowHours, aware |-> FALSE, off |-> 0],
      \* aware (ET), one hour older than that
      [wall |-> Now0 - WindowHours - 1 + ET_OFFSET, aware |-> TRUE, off |-> ET_OFFSET],
      \* aware (foreign offset), far in the future
      [wall |-> Now0 + FarAhead, aware |-> TRUE, off |-> FOREIGN_OFFSET] }

ItemsOf(titles, stamps) ==
    { [title |-> t, url |-> u, published |-> p, summary |-> << >>] :
        t \in titles, u \in Urls, p \in stamps }

(***************************************************************************)
(* State                                                                   *)
(***************************************************************************)
VARIABLES
    env,        \* os.environ: which of the settings are set (and not blank)
    served,     \* the items the sources and searches serve during this run
    pc,         \* where main is: "sources", "queries", "filter", ...
    si,         \* collect_all: index of the next row of SOURCES
    qi,         \* collect_all: index of the next row of GOOGLE_NEWS_QUERIES
    out,        \* collect_all: out
    outcome,    \* what the latest fetcher call did: raised, or the list returned
    warned,     \* a "[WARN] Failed ..." line has been printed
    called,     \* the fetcher each source row was handed to, in order
    returned,   \* every list a fetcher returned, concatenated in call order
    net,        \* number of network requests made so far
    now,        \* the wall clock (UTC hours)
    fi,         \* collect_all: index in out of the item the last loop is at
    filtered,   \* collect_all: filtered
    seen,       \* collect_all: seen
    inwin,      \* indices of out whose item passed within_days
    items,      \* main: items, after the strict filter
    buckets,    \* main: buckets, a dict kept as rows [cat, items] in insertion order
    order,      \* build_email_html: the categories in the order they are rendered
    bi,         \* build_email_html: index in order of the next category
    report,     \* build_email_html: the sections rendered so far
    sent,       \* number of messages handed to the SMTP server
    printed,    \* the lines main and send_email have printed
    fault,      \* where an uncaught exception came from, "none" if there is none
    probe,      \* the Item handed to is_strict_us_rvpark / categorize
    inScope,    \* what is_strict_us_rvpark(probe) returned: "unset", "yes", "no"
    tagged,     \* categorize(probe) has returned
    tags        \* what categorize(probe) returned

mainVars == << env, items, buckets, order, bi, report, sent, printed, fault >>

collectVars ==
    << served, pc, si, qi, out, outcome, warned, called, returned, net, now,
       fi, filtered, seen, inwin >>

textVars == << probe, inScope, tagged, tags >>

vars == << collectVars, mainVars, textVars >>

NoOutcome == [raised |-> FALSE, items |-> << >>]

NoProbe == [title |-> << >>, summary |-> << >>]

TextIdle ==
    /\ probe = NoProbe
    /\ inScope = "unset"
    /\ tagged = FALSE
    /\ tags = << >>

\* the state when main is entered
RunStart ==
    /\ pc = "sources"
    /\ si = 1
    /\ qi = 1
    /\ out = << >>
    /\ outcome = NoOutcome
    /\ warned = FALSE
    /\ called = << >>
    /\ returned = << >>
    /\ net = 0
    /\ now = Now0
    /\ fi = 1
    /\ filtered = << >>
    /\ seen = { }
    /\ inwin = { }
    /\ items = << >>
    /\ buckets = << >>
    /\ order = << >>
    /\ bi = 1
    /\ report = << >>
    /\ sent = 0
    /\ printed = << >>
    /\ fault = "none"

(***************************************************************************)
(* collect_all                                                             *)
(***************************************************************************)
\* lines 259-269: one pass of `for s in SOURCES`
FetchSource ==
    /\ pc = "sources"
    /\ LET f == Dispatch(SOURCES[si].type)
       IN  \E r \in FetchResults(f, served, MaxOut - Len(out)) :
               LET h == TryExtend(out, r)
               IN  /\ outcome' = r
                   /\ out' = h.out
                   /\ warned' = (warned \/ h.warn)
                   /\ called' = Append(called, f)
                   /\ returned' = returned \o r.items
                   /\ IF h.continues
                      THEN /\ si' = si + 1
                           /\ pc' = IF si = Len(SOURCES) THEN "queries" ELSE "sources"
                      ELSE /\ si' = si
                           /\ pc' = "crashed"
                   /\ fault' = IF h.continues THEN fault ELSE "fetch"
    /\ net' = net + 1
    /\ UNCHANGED << served, qi, now, fi, filtered, seen, inwin, textVars >>
    /\ UNCHANGED << env, items, buckets, order, bi, report, sent, printed >>

\* lines 271-276: one pass of `for q in GOOGLE_NEWS_QUERIES`
FetchQuery ==
    /\ pc = "queries"
    /\ \E r \in FetchResults("parse_rss", served, MaxOut - Len(out)) :
           LET h == TryExtend(out, r)
           IN  /\ outcome' = r
               /\ out' = h.out
               /\ warned' = (warned \/ h.warn)
               /\ returned' = returned \o r.items
               /\ IF h.continues
                  THEN /\ qi' = qi + 1
                       /\ pc' = IF qi = Len(GOOGLE_NEWS_QUERIES) THEN "filter" ELSE "queries"
                  ELSE /\ qi' = qi
                       /\ pc' = "crashed"
               /\ fault' = IF h.continues THEN fault ELSE "fetch"
    /\ net' = net + 1
    /\ UNCHANGED << served, si, called, now, fi, filtered, seen, inwin, textVars >>
    /\ UNCHANGED << env, items, buckets, order, bi, report, sent, printed >>

\* lines 281-292: one pass of `for it in out`; within_days reads the clock
FilterStep ==
    /\ pc = "filter"
    /\ fi <= Len(out)
    /\ \E t \in now..(now + 1) :
           /\ t <= Now0 + MaxTick
           /\ now' = t
           /\ LET dt   == attach_utc(out[fi].published)
                  it   == [out[fi] EXCEPT !.published = dt]
                  keep == in_window(dt, WindowDays, t)
              IN  /\ out' = [out EXCEPT ![fi] = it]
                  /\ inwin' = IF keep THEN inwin \cup {fi} ELSE inwin
                  /\ seen' = keep_item(filtered, seen, it, keep).seen
                  /\ filtered' = keep_item(filtered, seen, it, keep).filtered
    /\ fi' = fi + 1
    /\ UNCHANGED << served, pc, si, qi, outcome, warned, called, returned, net >>
    /\ UNCHANGED << mainVars, textVars >>

\* collect_all alone, every source serving any of the items
AllSet ==
    [SMTP_USERNAME |-> TRUE, SMTP_PASSWORD |-> TRUE, TO_EMAIL |-> TRUE,
     OPENAI_API_KEY |-> TRUE]

CollectInit ==
    /\ env = AllSet
    /\ served = ItemsOf({T_SALE, T_ZONING}, Stamps)
    /\ RunStart
    /\ TextIdle

CollectNext == FetchSource \/ FetchQuery \/ FilterStep

CollectSpec == CollectInit /\ [][CollectNext]_vars

(***************************************************************************)
(* main after collect_all, build_email_html, send_email                    *)
(***************************************************************************)
\* collect_all returns filtered and its frame is gone; main, lines 487-499, up
\* to the first summary call
MainFilter ==
    /\ pc = "filter"
    /\ fi > Len(out)
    /\ \E its \in { SelectSeq(filtered, is_strict_us_rvpark) } :
       \E b \in { Bucketize(its) } :
           /\ items' = its
           /\ buckets' = b
           /\ order' = SortedCats(b)
           /\ pc' = IF b = << >> THEN "send" ELSE "build"
    /\ printed' = Append(printed, "Collected")
    /\ si' = 1
    /\ qi' = 1
    /\ out' = << >>
    /\ outcome' = NoOutcome
    /\ returned' = << >>
    /\ fi' = 1
    /\ filtered' = << >>
    /\ seen' = { }
    /\ inwin' = { }
    /\ UNCHANGED << served, warned, called, net, now >>
    /\ UNCHANGED << env, bi, report, sent, fault, textVars >>

\* build_email_html, lines 436-454: one pass of the loop over the categories.
\* The fallback sentence depends on the category's items alone.
BuildSection ==
    /\ pc = "build"
    /\ \E fb \in { fallback_category_summary(order[bi], ItemsOfCat(buckets, order[bi])) } :
       \E ev \in IF env.OPENAI_API_KEY THEN AiEvents ELSE { NoAiEvent } :
       \E a \in { ai_category_summary(env.OPENAI_API_KEY, ev) } :
           /\ net' = net + a.requests
           /\ IF a.raised
              THEN /\ pc' = "crashed"
                   /\ fault' = "synthesis"
                   /\ UNCHANGED << bi, report >>
              ELSE /\ report' = Append(report,
                                       Section(order[bi], ItemsOfCat(buckets, order[bi]), a, fb))
                   /\ bi' = bi + 1
                   /\ pc' = IF bi = Len(order) THEN "send" ELSE "build"
                   /\ UNCHANGED fault
    /\ UNCHANGED << served, si, qi, out, outcome, warned, called, returned, now,
                    fi, filtered, seen, inwin >>
    /\ UNCHANGED << env, items, buckets, order, sent, printed, textVars >>

\* main, lines 500-502: send_email and the closing print
SendEmail ==
    /\ pc = "send"
    /\ \E smtpOk \in BOOLEAN :
           LET r == send_email(env, smtpOk)
           IN  /\ net' = net + r.requests
               /\ sent' = sent + r.sent
               /\ fault' = r.fault
               /\ IF r.raised
                  THEN /\ pc' = "crashed"
                       /\ printed' = printed \o r.lines
                  ELSE /\ pc' = "done"
                       /\ printed' = printed \o r.lines \o << "Sent digest" >>
    /\ UNCHANGED << served, si, qi, out, outcome, warned, called, returned, now,
                    fi, filtered, seen, inwin >>
    /\ UNCHANGED << env, items, buckets, order, bi, report, textVars >>

\* the whole run, under every combination of settings
Settings ==
    [SMTP_USERNAME : BOOLEAN, SMTP_PASSWORD : BOOLEAN, TO_EMAIL : BOOLEAN,
     OPENAI_API_KEY : BOOLEAN]

FarFuture == [wall |-> Now0 + FarAhead, aware |-> TRUE, off |-> FOREIGN_OFFSET]

Init ==
    /\ env \in Settings
    /\ served = { [title |-> T_SALE, url |-> "https://a.example/1",
                   published |-> FarFuture, summary |-> << >>],
                  [title |-> T_ZONING, url |-> "https://b.example/2",
                   published |-> FarFuture, summary |-> << >>],
                  [title |-> T_TRAILER, url |-> "https://a.example/1",
                   published |-> FarFuture, summary |-> << >>] }
    /\ RunStart
    /\ TextIdle

Next == FetchSource \/ FetchQuery \/ FilterStep \/ MainFilter \/ BuildSection \/ SendEmail

Spec == Init /\ [][Next]_vars

(***************************************************************************)
(* Relevance Filter and Categorizer as pure functions of an item           *)
(***************************************************************************)
\* pieces of headline text the items are built from
Fragments ==
    { <<"K","O","A">>,
      <<"R","V"," "," ","P","a","r","k">>,
      <<" ","d","e","a","l","e","r"," ">>,
      <<" ","i","n"," ","C","a","n","a","d","a">>,
      <<" ","O","c","a","l","a",","," ","F","L">>,
      <<" ","T","e","x","a","s"," ">>,
      <<" ","f","o","r"," ","s","a","l","e">>,
      <<" ","Z","o","n","i","n","g">>,
      <<" ","h","o","t","e","l","s">>,
      <<"\t","c","a","m","p","g","r","o","u","n","d","\n">>,
      <<" ","n","e","w","s">>,
      <<" ","M","i","l","w","a","u","k","e","e">> }

RECURSIVE Join(_)
Join(frs) == IF frs = << >> THEN << >> ELSE Head(frs) \o Join(Tail(frs))

IdleRun ==
    /\ served = { }
    /\ pc = "idle"
    /\ si = 1
    /\ qi = 1
    /\ out = << >>
    /\ outcome = NoOutcome
    /\ warned = FALSE
    /\ called = << >>
    /\ returned = << >>
    /\ net = 0
    /\ now = Now0
    /\ fi = 1
    /\ filtered = << >>
    /\ seen = { }
    /\ inwin = { }
    /\ env = AllSet
    /\ items = << >>
    /\ buckets = << >>
    /\ order = << >>
    /\ bi = 1
    /\ report = << >>
    /\ sent = 0
    /\ printed = << >>
    /\ fault = "none"

TextInit ==
    /\ \E frs \in BoundedSeq(Fragments, MaxFrags) :
       \E k \in 0..Len(frs) :
           probe = [title   |-> Join(SubSeq(frs, 1, k)),
                    summary |-> Join(SubSeq(frs, k + 1, Len(frs)))]
    /\ inScope = "unset"
    /\ tagged = FALSE
    /\ tags = << >>
    /\ IdleRun

\* main, line 488: is_strict_us_rvpark(it)
Scope ==
    /\ inScope = "unset"
    /\ inScope' = IF is_strict_us_rvpark(probe) THEN "yes" ELSE "no"
    /\ UNCHANGED << probe, tagged, tags, collectVars, mainVars >>

\* main, line 495: categorize(it)
Categorize ==
    /\ ~tagged
    /\ tagged' = TRUE
    /\ tags' = categorize(probe)
    /\ UNCHANGED << probe, inScope, collectVars, mainVars >>

TextNext == Scope \/ Categorize

TextSpec == TextInit /\ [][TextNext]_vars

(***************************************************************************)
(* Report Assembler as a function of the mapping it is given               *)
(***************************************************************************)
\* how many items more than the [:40] of line 448 a category may hold
MaxOver == 2

\* the lengths of a category's list: short, at the cap, over the cap
ReportSizes == { 1, ReportCap, ReportCap + MaxOver }

\* the publish time of the i-th item of a list, all timezone-aware as
\* collect_all leaves them:
\*   "oldest_first": one hour apart, the oldest first
\*   "ties":         two instants only, alternating
\*   "zones":        even rows in ET, odd rows in UTC, so that the order of
\*                   the wall-clock readings is not the order of the instants
Published(pattern, i) ==
    IF pattern = "oldest_first"
    THEN [wall |-> Now0 - ReportCap - MaxOver + i, aware |-> TRUE, off |-> UTC_OFFSET]
    ELSE IF pattern = "ties"
    THEN [wall |-> Now0 - (i % 2), aware |-> TRUE, off |-> UTC_OFFSET]
    ELSE IF i % 2 = 0
    THEN [wall |-> Now0 + i + ET_OFFSET, aware |-> TRUE, off |-> ET_OFFSET]
    ELSE [wall |-> Now0 - i, aware |-> TRUE, off |-> UTC_OFFSET]

ReportPatterns == { "oldest_first", "ties", "zones" }

ReportItems(pattern, n) ==
    [i \in 1..n |->
        [title     |-> <<"R","V">>,
         url       |-> "https://a.example/" \o ToString(i),
         published |-> Published(pattern, i),
         summary   |-> << >>]]

ReportLists == { ReportItems(p, n) : p \in ReportPatterns, n \in ReportSizes }

\* items_by_cat: every dict over two of the labels, in insertion order
ReportMappings ==
    { << >> }
    \cup { << [cat |-> "Other", items |-> a] >> : a \in ReportLists }
    \cup { << [cat |-> "Other", items |-> a],
              [cat |-> "Legal / Zoning", items |-> b] >> :
             a \in ReportLists, b \in ReportLists }

\* build_email_html is entered with the mapping; nothing else is running
ReportInit ==
    /\ env \in { e \in Settings : RequiredSet(e) }
    /\ \E m \in ReportMappings :
           /\ buckets = m
           /\ order = SortedCats(m)
           /\ pc = IF m = << >> THEN "send" ELSE "build"
    /\ served = { }
    /\ si = 1
    /\ qi = 1
    /\ out = << >>
    /\ outcome = NoOutcome
    /\ warned = FALSE
    /\ called = << >>
    /\ returned = << >>
    /\ net = 0
    /\ now = Now0
    /\ fi = 1
    /\ filtered = << >>
    /\ seen = { }
    /\ inwin = { }
    /\ items = << >>
    /\ bi = 1
    /\ report = << >>
    /\ sent = 0
    /\ printed = << >>
    /\ fault = "none"
    /\ TextIdle

ReportNext == BuildSection

ReportSpec == ReportInit /\ [][ReportNext]_vars

(***************************************************************************)
(* Properties                                                              *)
(***************************************************************************)
Range(s) == { s[i] : i \in DOMAIN s }

\* the labels whose keyword list has a hit in the lower-cased title + " " + summary
HitLabels(item) ==
    { KEYWORDS[n].cat : n \in { m \in DOMAIN KEYWORDS :
                                   AnyIn(KEYWORDS[m].words, CategoryText(item)) } }

\* C5: whenever is_strict_us_rvpark returns true, the normalized text holds
\* an inclusion-list phrase and no exclusion-list phrase.
C5_InScopeIsTopical ==
    inScope = "yes" =>
        /\ AnyIn(MUST_HAVE_ANY, ScopeText(probe))
        /\ ~AnyIn(REJECT_IF_ANY, ScopeText(probe))

\* an item with text in its summary passed the filter on a US hint
C5_Witness ==
    /\ inScope = "yes"
    /\ probe.summary # << >>
    /\ AnyIn(US_HINTS, ScopeText(probe))

\* the in-scope preconditions the operator allow-list scenario names
OperatorStory(item) ==
    /\ AnyIn(MUST_HAVE_ANY, ScopeText(item))
    /\ ~AnyIn(REJECT_IF_ANY, ScopeText(item))
    /\ AnyIn(US_OPERATOR_OK, ScopeText(item))

\* C6 as stated: an item with an inclusion phrase, no exclusion phrase and a
\* known operator name is accepted, whatever else its text holds.
C6_OperatorStoryAccepted ==
    (inScope # "unset" /\ OperatorStory(probe)) => inScope = "yes"

\* C6, amended: such an item is accepted provided its text holds no non-US
\* hint phrase; it needs no country hint, region name or region code.
C6_OperatorStoryAcceptedUnlessNonUS ==
    (/\ inScope # "unset"
     /\ OperatorStory(probe)
     /\ ~AnyIn(NON_US_HINTS, ScopeText(probe))) => inScope = "yes"

\* an operator story without any geography hint was accepted
C6_Witness ==
    /\ inScope = "yes"
    /\ OperatorStory(probe)
    /\ ~AnyIn(US_HINTS, ScopeText(probe))
    /\ ~has_state_abbr(ScopeText(probe))

\* C9: categorize returns a non-empty list holding exactly the labels whose
\* keyword list has a hit; with no hit it is the catch-all label alone, and
\* the catch-all label never comes with another label.
C9_LabelsAreExactlyTheHits ==
    tagged =>
        /\ tags # << >>
        /\ Cardinality(Range(tags)) = Len(tags)
        /\ IF HitLabels(probe) = { }
           THEN tags = << "Other" >>
           ELSE Range(tags) = HitLabels(probe)
        /\ "Other" \in Range(tags) => Len(tags) = 1

\* an item was given two labels at once
C9_Witness == tagged /\ Len(tags) >= 2

\* the instant a fetched published denotes when a naive one is read as UTC
UtcInstant(p) == IF p.aware THEN p.wall - p.off ELSE p.wall

\* identity and headline of the items of a list
Heads(its) == [i \in DOMAIN its |-> << its[i].url, its[i].title >>]

\* the elements of s at the indices in K, in order
RECURSIVE Pick(_, _, _)
Pick(s, K, n) ==
    IF n = 0 THEN << >>
    ELSE Pick(s, K, n - 1) \o (IF n \in K THEN << s[n] >> ELSE << >>)

\* indices of out, among those passed by the window test, that are the first
\* with their url
FirstInWindow ==
    { i \in inwin : \A j \in inwin : j < i => out[j].url # out[i].url }

\* collect_all has run its last loop to the end
Collected == pc = "filter" /\ fi > Len(out)

FetchCount == Len(SOURCES) + Len(GOOGLE_NEWS_QUERIES)

\* C1: a fetcher that raises does not abort collect_all: it adds nothing to
\* out, every source and query is still fetched, and what collect_all returns
\* is the window-filtered, deduplicated list of all the fetchers returned.
C1_FailureIsolated ==
    /\ pc # "crashed"
    /\ net = (si - 1) + (qi - 1)
    /\ Len(called) = si - 1
    /\ outcome.raised => warned
    /\ Heads(out) = Heads(returned)
    /\ pc = "filter" => net = FetchCount
    /\ Collected => Heads(filtered) = Heads(Pick(returned, FirstInWindow, Len(returned)))

\* a fetch failed, the last query was still fetched and its items are returned
C1_Witness ==
    /\ Collected
    /\ warned
    /\ ~outcome.raised
    /\ outcome.items # << >>
    /\ filtered # << >>
    /\ filtered[Len(filtered)].url = outcome.items[Len(outcome.items)].url

\* the fetcher the spec assigns to a strategy tag
FetcherOfTag(type) ==
    IF type = "rss" THEN "parse_rss"
    ELSE IF type = "html_simple_dates" THEN "parse_html_simple_dates"
    ELSE "parse_html_rvbusiness"

\* C3: every source is handed to the fetcher of its strategy tag.
C3_DispatchMatchesTag ==
    \A i \in DOMAIN called : called[i] = FetcherOfTag(SOURCES[i].type)

\* C4 as stated: filtered holds one item per url, and it is the first item of
\* out with that url.
C4_KeepsFirstEncountered ==
    pc = "filter" =>
        \A j \in DOMAIN filtered :
            /\ \A k \in DOMAIN filtered : filtered[k].url = filtered[j].url => k = j
            /\ LET first == CHOOSE i \in DOMAIN out :
                                /\ out[i].url = filtered[j].url
                                /\ \A h \in 1..(i - 1) : out[h].url # out[i].url
               IN  filtered[j].title = out[first].title

\* C4, amended: filtered holds one item per url, and it is the first item of
\* out with that url among the items that passed the window test.
C4_KeepsFirstInWindow ==
    pc = "filter" =>
        /\ \A j, k \in DOMAIN filtered : filtered[k].url = filtered[j].url => k = j
        /\ seen = { filtered[j].url : j \in DOMAIN filtered }
        /\ filtered = Pick(out, FirstInWindow, fi - 1)

\* two items with one url and two titles, both recent: the first is returned
C4_Witness ==
    /\ Collected
    /\ Len(out) = 2
    /\ inwin = {1, 2}
    /\ out[1].url = out[2].url
    /\ out[1].title # out[2].title
    /\ filtered = << out[1] >>

\* C7 as stated: every published handled so far is aware and denotes the
\* instant of the fetched one with a naive one read as UTC, and every item of
\* filtered carries its published in the canonical timezone.
C7_PublishedInCanonicalZone ==
    pc = "filter" =>
        /\ \A i \in 1..(fi - 1) :
               /\ out[i].published.aware
               /\ Instant(out[i].published) = UtcInstant(returned[i].published)
        /\ \A j \in DOMAIN filtered :
               /\ filtered[j].published.aware
               /\ filtered[j].published.off = ET_OFFSET

\* C7, amended: every published handled so far is aware, denotes the instant
\* of the fetched one with a naive one read as UTC, and keeps the offset it
\* was fetched with (UTC for a naive one); the window test was made on that
\* instant, with a clock reading between the start of the run and now.
C7_PublishedAwareSameInstant ==
    pc = "filter" =>
        \A i \in 1..(fi - 1) :
            /\ out[i].published.aware
            /\ Instant(out[i].published) = UtcInstant(returned[i].published)
            /\ out[i].published.off = IF returned[i].published.aware
                                      THEN returned[i].published.off
                                      ELSE UTC_OFFSET
            /\ i \in inwin => Instant(out[i].published) >= Now0 - WindowHours
            /\ i \notin inwin => Instant(out[i].published) < now - WindowHours
            /\ \A j \in DOMAIN filtered :
                   filtered[j].url = out[i].url /\ i \in FirstInWindow
                       => filtered[j].published = out[i].published

\* an item fetched with a naive published is returned, in UTC
C7_Witness ==
    /\ Collected
    /\ \E i \in FirstInWindow :
           /\ ~returned[i].published.aware
           /\ out[i].published.off = UTC_OFFSET
           /\ \E j \in DOMAIN filtered : filtered[j] = out[i]

\* C8: the window test of an item is true iff its instant is at or after the
\* clock reading minus the window; an item that passes is kept unless its url
\* was seen, an item that fails is dropped.
C8_WindowTest ==
    [][ (pc = "filter" /\ fi' = fi + 1) =>
            LET inst == UtcInstant(out[fi].published)
            IN  /\ (fi \in inwin') <=> (inst >= now' - WindowHours)
                /\ (fi \in inwin' /\ out[fi].url \notin seen)
                       => Heads(filtered') = Append(Heads(filtered), Heads(out)[fi])
                /\ (fi \notin inwin') => filtered' = filtered
                /\ inst >= now' => fi \in inwin' ]_vars

\* an item exactly at the boundary was kept and one an hour older was dropped
C8_Witness ==
    /\ pc = "filter"
    /\ \E i \in inwin :
           /\ Instant(out[i].published) = now - WindowHours
           /\ \E j \in DOMAIN filtered : filtered[j] = out[i]
    /\ \E i \in 1..(fi - 1) :
           /\ i \notin inwin
           /\ Instant(out[i].published) = now - WindowHours - 1

\* C2: with a required setting unset, no network request is made.
C2_NoRequestWhenSettingMissing == ~RequiredSet(env) => net = 0

\* C10: no failure of the summary call aborts the run, and every section
\* rendered carries a summary.
C10_SynthesisFailureNeverAborts ==
    /\ fault # "synthesis"
    /\ \A i \in DOMAIN report : report[i].summary # << >>

\* one rendered section against the list the mapping holds for its label
SectionListsMostRecent(sec, its) ==
    LET l == sec.listing
    IN  /\ sec.count = Len(its)
        /\ Len(l) = IF Len(its) < ReportCap THEN Len(its) ELSE ReportCap
        /\ \A a, b \in DOMAIN l :
               a < b => /\ l[a] # l[b]
                        /\ Instant(l[a].published) >= Instant(l[b].published)
        /\ Range(l) \subseteq Range(its)
        /\ \A x \in Range(its) \ Range(l) : \A y \in Range(l) :
               Instant(x.published) <= Instant(y.published)

\* C11: given a mapping from label to items, the report has exactly one
\* section per label, the sections are in non-increasing order of item
\* count, and each section lists, newest first, the most recent items of
\* its label up to the cap of 40.
C11_ReportSections ==
    /\ \A i \in DOMAIN report :
           \E r \in DOMAIN buckets :
               /\ buckets[r].cat = report[i].cat
               /\ SectionListsMostRecent(report[i], buckets[r].items)
    /\ \A i, j \in DOMAIN report :
           i < j => /\ report[i].cat # report[j].cat
                    /\ report[i].count >= report[j].count
    /\ pc = "send" =>
           \A r \in DOMAIN buckets : \E i \in DOMAIN report : report[i].cat = buckets[r].cat

\* the report of a two-label mapping is assembled; the label inserted second
\* has more items than the cap and is rendered first, and its listing is not
\* the head of the list as the mapping held it
C11_Witness ==
    /\ pc = "send"
    /\ Len(buckets) = 2
    /\ Len(report) = 2
    /\ report[1].cat = buckets[2].cat
    /\ report[1].count > ReportCap
    /\ report[2].count < report[1].count
    /\ Len(report[1].listing) = ReportCap
    /\ report[1].listing # Take(buckets[2].items, ReportCap)

\* send_email has been called in this run: it returned, or it raised
SendAttempted == pc = "done" \/ (pc = "crashed" /\ fault \in { "config", "smtp" })

SuccessLines == { "EMAIL_SENT_OK", "Sent digest" }

SendComesLast ==
    /\ sent <= 1
    /\ SendAttempted =>
           /\ Len(called) = Len(SOURCES)
           /\ net >= FetchCount
           /\ "Collected" \in Range(printed)
           /\ Len(report) = Len(buckets)
           /\ \A r \in DOMAIN buckets : \E i \in DOMAIN report : report[i].cat = buckets[r].cat
    /\ fault \in { "config", "smtp" } =>
           /\ pc = "crashed"
           /\ sent = 0
           /\ Range(printed) \cap SuccessLines = { }
    /\ Range(printed) \cap SuccessLines # { } => (pc = "done" /\ sent = 1)

\* C12: in every run the send is attempted at most once, and only once every
\* source and query has been processed and the report is assembled (also
\* when no item qualified); a failed send is neither caught nor retried: the
\* run ends in failure and no success line is printed.
C12_SendOnceAfterReport ==
    /\ []SendComesLast
    /\ [][ /\ ~SendAttempted
           /\ SendAttempted' => pc = "send" ]_vars

\* no item qualified, the empty report was handed to send_email, and the
\* SMTP session failed
C12_Witness ==
    /\ pc = "crashed"
    /\ fault = "smtp"
    /\ buckets = << >>
    /\ report = << >>
    /\ "Collected" \in Range(printed)
    /\ net = FetchCount + 1

====
